---- MODULE Spec2Model ----
(***************************************************************************)
(* Model of the nextjs-nodejs-apollo-graphql-starter.                      *)
(*                                                                         *)
(* Backend (specification Spec): GraphQL requests pass through the context *)
(* factory (auth middleware: verify token, keyed lookup, user sync, attach *)
(* role/claims), then the user resolver guarded by @authRequired() and   *)
(* wrapped in tryCatchAsync; Prisma routes reads to a replica and writes   *)
(* to the primary; Express routes forward errors to errorMiddleware.       *)
(*                                                                         *)
(* Frontend (specification SpecNext): the Next.js proxy selected from      *)
(* NEXT_PUBLIC_CLERK_PUBLISHABLE_KEY and the Providers composition.        *)
(***************************************************************************)
EXTENDS Integers, Sequences, FiniteSets, TLC

VARIABLES
    primary,     \* user table on the primary database
    replica,     \* user table as seen on the read replica
    nextId,      \* autoincrement counter of User.id
    dbLog,       \* set of database operations issued: [op, type, target]
    pc,          \* per request: position in the request pipeline
    route,       \* per request: the Express route it was sent to
    token,       \* per request: the bearer token it carries
    ctx,         \* per request: the GraphQL context ([user |-> ...])
    steps,       \* per request: context-building steps done, in order
    found,       \* per request: answer of the resolver's findUnique call
    raw,         \* per request: outcome of the resolver body (fn)
    result,      \* per request: what the GraphQL operation ends with
    mwErr,       \* per request: the error that reached errorMiddleware
    httpResp,    \* per request: the response an Express handler sent
    gqlOp,       \* per request: the GraphQL operation it asks for
    nodeEnv,     \* process.env.NODE_ENV of the backend
    introspection, \* the introspection option ApolloServer was built with
    clerkKey,    \* NEXT_PUBLIC_CLERK_PUBLISHABLE_KEY at module load
    proxy,       \* the exported proxy function (selected at module load)
    proxyResp,   \* last frontend request handled by the proxy
    rendered,    \* last element tree rendered by Providers
    dispatched   \* last request Next.js tested against config.matcher

dbVars == <<primary, replica, nextId, dbLog>>
reqVars == <<pc, route, token, ctx, steps, found, raw, result, mwErr, httpResp,
            gqlOp>>
cfgVars == <<nodeEnv, introspection>>
nextVars == <<clerkKey, proxy, proxyResp, rendered, dispatched>>
vars == <<primary, replica, nextId, dbLog,
          pc, route, token, ctx, steps, found, raw, result, mwErr, httpResp,
          gqlOp,
          nodeEnv, introspection,
          clerkKey, proxy, proxyResp, rendered, dispatched>>

----------------------------------------------------------------------------
\* Bounds

NumRequests == 2
MaxUsers == 2

Requests == 1..NumRequests

----------------------------------------------------------------------------
\* Values

Null == [kind |-> "null"]

\* Clerk identities and the e-mail address each one carries.
Identities == {"clerk_a", "clerk_b", "clerk_c"}

EmailOf(a) == IF a = "clerk_b" THEN "b@x.io" ELSE "a@x.io"

\* Bearer tokens: absent, present but failing verification, or valid for an
\* identity.
Tokens == {"none", "bad"} \cup Identities

\* enum UserRole
UserRole == {"ADMIN", "USER"}

\* role UserRole @default(USER)
DefaultRole_NoDefault == "NONE"

DefaultRole == "USER"

----------------------------------------------------------------------------
\* Prisma: the User model and the read/write routing split

\* Prisma operations used on the User model, and whether each is a read or
\* a write.
OpType(op) == IF op \in {"findUnique", "findMany"} THEN "read" ELSE "write"

\* @prisma/extension-read-replicas: reads go to a replica, writes to the
\* primary.
Route_AllToReplica(op) == "replica"

Route(op) == IF OpType(op) = "read" THEN "replica" ELSE "primary"

\* The table an operation routed to target runs against.
Store(target) == IF target = "replica" THEN replica ELSE primary

LogEntry(op) == [op |-> op, type |-> OpType(op), target |-> Route(op)]

\* prisma.user.findUnique({ where: { id } })
FindById(table, id) ==
    IF \E u \in table : u.id = id
    THEN CHOOSE u \in table : u.id = id
    ELSE Null

\* prisma.user.findUnique({ where: { auth_id } })
FindByAuthId(table, a) ==
    IF \E u \in table : u.auth_id = a
    THEN CHOOSE u \in table : u.auth_id = a
    ELSE Null

\* auth_id String @unique, email String @unique: an insert that repeats
\* either is rejected by the database.
UniqueViolation_AuthIdOnly(table, data) ==
    \E u \in table : u.auth_id = data.auth_id

UniqueViolation(table, data) ==
    \E u \in table : u.auth_id = data.auth_id \/ u.email = data.email

\* The row prisma.user.create({ data }) inserts: id from autoincrement(),
\* role from data when given, the schema default otherwise.
NewUser(id, data) ==
    [kind    |-> "user",
     id      |-> id,
     auth_id |-> data.auth_id,
     email   |-> data.email,
     role    |-> IF data.role = "unset" THEN DefaultRole ELSE data.role]

\* The data objects a caller can pass to prisma.user.create.
CreateData ==
    {[auth_id |-> a, email |-> EmailOf(a), role |-> ro] :
        a \in Identities, ro \in UserRole \cup {"unset"}}

----------------------------------------------------------------------------
\* Errors and outcomes

Value(v) == [kind |-> "value", value |-> v]

Throw(type, message) == [kind |-> "throw", type |-> type, message |-> message]

\* Failures of the database call itself (connection lost, timeout).
DbErrors ==
    {Throw("PrismaClientInitializationError", "Can't reach database server")}

\* utils/trycatch.ts: a value passes through, anything thrown becomes a
\* GraphQLError carrying the original message.
tryCatchAsync_Rethrow(outcome) == outcome

tryCatchAsync(outcome) ==
    IF outcome.kind = "value"
    THEN outcome
    ELSE Throw("GraphQLError", outcome.message)

----------------------------------------------------------------------------
\* Auth middleware and the context factory

\* Clerk SDK token verification: the verified subject, or Null.
VerifyToken_AcceptAny(tok) ==
    [kind |-> "claims", sub |-> IF tok \in Identities THEN tok ELSE "clerk_a"]

VerifyToken(tok) ==
    IF tok \in Identities THEN [kind |-> "claims", sub |-> tok] ELSE Null

\* The user object the middleware attaches for a local user record.
AuthUser(rec) ==
    [kind |-> "user", authId |-> rec.auth_id, dbUserId |-> rec.id,
     role |-> rec.role]

\* context: async ({ req, res }) => ({ ...await authMiddleWare(req, res), loaders })
Context_Shared(authResult) ==
    [user |-> [kind |-> "user", authId |-> "clerk_a", dbUserId |-> 1,
               role |-> "ADMIN"]]

Context(authResult) == [user |-> authResult]

----------------------------------------------------------------------------
\* UserResolver

\* Decorators on UserResolver.user besides @Query.
UserDecorators_None == {}

UserDecorators == {"authRequired"}

\* @authRequired(): rejects the operation when the context has no user.
AuthRequiredPasses(context) == context.user.kind = "user"

\* Whether the decorators let the body of UserResolver.user run.
UserBodyRuns(context) ==
    "authRequired" \in UserDecorators => AuthRequiredPasses(context)

\* await ctx.prisma.user.findUnique({ where: { id: ctx.user?.dbUserId } }):
\* what the call answers when it reads table. dbFail is Null or the error
\* the database call fails with.
FindUniqueUser(context, table, dbFail) ==
    IF dbFail.kind = "throw" THEN dbFail
    ELSE IF context.user.kind # "user"
    THEN Throw("PrismaClientValidationError", "Argument where needs at least one of id")
    ELSE FindById(table, context.user.dbUserId)

\* The function passed to tryCatchAsync, from the answer of findUnique on.
UserBodyAfter(answer) ==
    IF answer.kind = "throw" THEN answer
    ELSE IF answer.kind = "null"
    THEN Throw("GraphQLError", "User not found")
    ELSE Value(answer)

\* The function passed to tryCatchAsync in UserResolver.user.
UserBody(context, table, dbFail) ==
    UserBodyAfter(FindUniqueUser(context, table, dbFail))

\* The user query from the answer of findUnique on: [raw |-> outcome of the
\* body or Null when the body did not run, result |-> what the operation
\* ends with].
UserQueryAfter(context, answer) ==
    IF ~UserBodyRuns(context)
    THEN [raw |-> Null, result |-> Throw("GraphQLError", "Unauthorized")]
    ELSE LET body == UserBodyAfter(answer)
         IN  [raw |-> body, result |-> tryCatchAsync(body)]

\* One execution of the user query against table.
UserQuery(context, table, dbFail) ==
    UserQueryAfter(context, FindUniqueUser(context, table, dbFail))

----------------------------------------------------------------------------
\* Express

ExpressErrors ==
    {Throw("Error", "connect ECONNREFUSED 10.0.0.5:5432"),
     Throw("TypeError", "Cannot read properties of undefined")}

errorMiddleware_LeakMessage(err) ==
    [status |-> 500, body |-> [status |-> "error", message |-> err.message]]

errorMiddleware(err) ==
    [status |-> 500,
     body |-> [status |-> "error", message |-> "Internal server error"]]

\* Express 5 forwards what a route handler throws (or rejects with) to the
\* error middleware; what happens inside Apollo's /graphql handler (context
\* factory, resolvers) is handled by Apollo Server and never forwarded.
ExpressForwards_Everything(handler, outcome) == outcome.kind = "throw"

ExpressForwards(handler, outcome) ==
    handler = "route" /\ outcome.kind = "throw"

----------------------------------------------------------------------------
\* Apollo Server configuration: introspection and formatError

\* Values process.env.NODE_ENV can have.
NodeEnvs == {"production", "development", "local", "undefined"}

\* introspection: process.env.NODE_ENV !== "production"
IntrospectionEnabled_Always(env) == TRUE

IntrospectionEnabled(env) == env # "production"

\* An error object carrying extensions.code.
ThrowCoded(type, message, code) ==
    [kind |-> "throw", type |-> type, message |-> message, code |-> code]

\* error.extensions?.code as a condition: the code is present and truthy
\* (an empty string is falsy).
HasCode_Presence(err) == "code" \in DOMAIN err

HasCode(err) == "code" \in DOMAIN err /\ err.code # ""

\* error instanceof GraphQLError
IsGraphQLError(err) == err.type = "GraphQLError"

\* The error Apollo answers an introspection query with when introspection
\* is disabled.
IntrospectionDisabledError ==
    ThrowCoded("GraphQLError", "GraphQL introspection is not allowed",
               "GRAPHQL_VALIDATION_FAILED")

\* An introspection query against a server built with the given option.
IntrospectionQuery(enabled) ==
    IF enabled THEN Value([kind |-> "schema"]) ELSE IntrospectionDisabledError

\* Errors an operation of the schema can end with: a GraphQLError with a
\* code, a GraphQLError whose code is the empty string, a plain Error.
OperationErrors ==
    {ThrowCoded("GraphQLError", "Bad input", "BAD_USER_INPUT"),
     ThrowCoded("GraphQLError", "Rejected", ""),
     Throw("Error", "connect ECONNREFUSED")}

\* The formattedError Apollo passes to formatError: the message and the
\* code (INTERNAL_SERVER_ERROR when the error has no code field).
Formatted(err) ==
    [message |-> err.message,
     code |-> IF "code" \in DOMAIN err THEN err.code
              ELSE "INTERNAL_SERVER_ERROR"]

\* formatError: (formattedError, error) => ...
formatError_NeverMask(env, formattedError, error) == formattedError

formatError(env, formattedError, error) ==
    IF env = "production"
    THEN IF IsGraphQLError(error) /\ HasCode(error)
         THEN formattedError
         ELSE [message |-> "Internal server error"]
    ELSE formattedError

\* The body Apollo answers a GraphQL operation with: data, or the errors
\* as formatError returns them.
GraphQLResponse(env, outcome) ==
    IF outcome.kind = "value"
    THEN [kind |-> "graphql", data |-> outcome.value, errors |-> <<>>]
    ELSE [kind |-> "graphql", data |-> Null,
          errors |-> <<formatError(env, Formatted(outcome), outcome)>>]

----------------------------------------------------------------------------
\* Next.js frontend: proxy.ts and providers/index.tsx

\* Values process.env.NEXT_PUBLIC_CLERK_PUBLISHABLE_KEY can have.
ClerkKeys == {"undefined", "", "pk_test_abc"}

\* JavaScript truthiness of the key: undefined and "" are falsy.
Truthy(key) == key \notin {"undefined", ""}

\* export const proxy = clerkKey ? clerkMiddleware() : () => NextResponse.next()
SelectProxy_AlwaysClerk(key) == "clerkMiddleware"

SelectProxy(key) == IF Truthy(key) THEN "clerkMiddleware" ELSE "passthrough"

\* Request paths the proxy is invoked for.
Paths == {"/", "/dashboard", "/sign-in", "/api/users", "/blog/post"}

\* What clerkMiddleware() can answer: continue (with its auth headers set)
\* or redirect (handshake).
ClerkOutcomes == {"next", "redirect"}

\* The response of the selected proxy function to a request.
ProxyResponse(fn, path, clerkOutcome) ==
    IF fn = "passthrough"
    THEN [kind |-> "response", path |-> path, by |-> fn, action |-> "next",
          headers |-> "unchanged"]
    ELSE [kind |-> "response", path |-> path, by |-> fn,
          action |-> clerkOutcome, headers |-> "clerk-auth"]

\* config.matcher: paths are sequences of characters.

\* Whether the characters of lit occur in s from position i on.
MatchesAt(s, i, lit) ==
    /\ i >= 1
    /\ i + Len(lit) - 1 <= Len(s)
    /\ \A k \in 1..Len(lit) : s[i + k - 1] = lit[k]

\* The alternatives of (?:html?|css|js(?!on)|jpe?g|webp|png|gif|svg|ttf|
\* woff2?|ico|csv|docx?|xlsx?|zip|webmanifest), optional characters
\* expanded.
Extensions ==
    {<<"h", "t", "m">>,
     <<"h", "t", "m", "l">>,
     <<"c", "s", "s">>,
     <<"j", "s">>,
     <<"j", "p", "g">>,
     <<"j", "p", "e", "g">>,
     <<"w", "e", "b", "p">>,
     <<"p", "n", "g">>,
     <<"g", "i", "f">>,
     <<"s", "v", "g">>,
     <<"t", "t", "f">>,
     <<"w", "o", "f", "f">>,
     <<"w", "o", "f", "f", "2">>,
     <<"i", "c", "o">>,
     <<"c", "s", "v">>,
     <<"d", "o", "c">>,
     <<"d", "o", "c", "x">>,
     <<"x", "l", "s">>,
     <<"x", "l", "s", "x">>,
     <<"z", "i", "p">>,
     <<"w", "e", "b", "m", "a", "n", "i", "f", "e", "s", "t">>}

\* One alternative matches in s at position i; js only when not followed
\* by "on".
ExtensionAt(s, i) ==
    \E e \in Extensions :
        /\ MatchesAt(s, i, e)
        /\ e = <<"j", "s">> => ~MatchesAt(s, i + 2, <<"o", "n">>)

\* [^?]*\.(?:...) matches at the start of rest: some dot, preceded by no
\* "?", is followed by one of the alternatives. Nothing anchors the match
\* at the end of the path.
StaticFileLookahead(rest) ==
    \E i \in 1..Len(rest) :
        /\ rest[i] = "."
        /\ \A j \in 1..(i - 1) : rest[j] # "?"
        /\ ExtensionAt(rest, i + 1)

\* matcher[0]: "/((?!_next|[^?]*\\.(?:...)).*)"
FirstPattern(path) ==
    /\ Len(path) >= 1
    /\ path[1] = "/"
    /\ ~MatchesAt(Tail(path), 1, <<"_", "n", "e", "x", "t">>)
    /\ ~StaticFileLookahead(Tail(path))

\* matcher[1]: "/(api|trpc)(.*)"
SecondPattern_Missing(path) == FALSE

SecondPattern(path) ==
    \/ MatchesAt(path, 1, <<"/", "a", "p", "i">>)
    \/ MatchesAt(path, 1, <<"/", "t", "r", "p", "c">>)

\* Next.js runs the proxy for a path when any matcher pattern matches it.
MatcherMatches(path) == FirstPattern(path) \/ SecondPattern(path)

\* Request paths: a first segment, an optional directory, a last segment.
PathPrefixes ==
    {<<"/">>,
     <<"/", "_", "n", "e", "x", "t", "/">>,
     <<"/", "a", "p", "i", "/">>,
     <<"/", "t", "r", "p", "c", "/">>,
     <<"/", "b", "l", "o", "g", "/">>}

PathMiddles ==
    {<<>>,
     <<"s", "t", "a", "t", "i", "c", "/">>,
     <<"m", "y", ".", "z", "i", "p", "c", "o", "d", "e", "/">>,
     <<"d", "o", "c", "s", ".", "h", "t", "m", "l", "-", "g", "u", "i", "d", "e", "/">>,
     <<"a", ".", "c", "s", "s", "/">>}

PathSuffixes ==
    {<<>>,
     <<"p", "a", "g", "e">>,
     <<"a", "p", "p", ".", "j", "s">>,
     <<"d", "a", "t", "a", ".", "j", "s", "o", "n">>,
     <<"e", "x", "p", "o", "r", "t", ".", "c", "s", "v">>,
     <<"i", "n", "d", "e", "x", ".", "h", "t", "m", "l">>,
     <<"f", "e", "e", "d", ".", "j", "s", "o", "n", "p">>}

MatcherPaths ==
    {a \o b \o c : a \in PathPrefixes, b \in PathMiddles, c \in PathSuffixes}

\* children passed to Providers by the root layout.
Children == {"page", "layout", "not-found", "error"}

\* Providers: the element tree as the sequence of elements from the outermost
\* to the innermost, ending with children. The sources hold two Providers
\* components.

\* providers/index.tsx: ApolloProvider around children, whatever the key.
Providers_ApolloOnly(key, children) == <<"ApolloProvider", children>>

\* The component that reads the key: ClerkProvider around ApolloProvider
\* when the key is truthy.
Providers(key, children) ==
    IF ~Truthy(key)
    THEN <<"ApolloProvider", children>>
    ELSE <<"ClerkProvider", "ApolloProvider", children>>

\* The Providers components a build of the frontend can contain.
ProvidersComponents == {"apollo-only", "clerk-conditional"}

ProvidersOf(component, key, children) ==
    IF component = "apollo-only"
    THEN Providers_ApolloOnly(key, children)
    ELSE Providers(key, children)

----------------------------------------------------------------------------
\* Initial state

\* The backend just started: empty database, no request in flight.
BackendInit ==
    /\ primary = {}
    /\ replica = {}
    /\ nextId = 1
    /\ dbLog = {}
    /\ pc = [r \in Requests |-> "idle"]
    /\ route = [r \in Requests |-> "none"]
    /\ token = [r \in Requests |-> "none"]
    /\ ctx = [r \in Requests |-> Context(Null)]
    /\ steps = [r \in Requests |-> <<>>]
    /\ found = [r \in Requests |-> Null]
    /\ raw = [r \in Requests |-> Null]
    /\ result = [r \in Requests |-> Null]
    /\ mwErr = [r \in Requests |-> Null]
    /\ httpResp = [r \in Requests |-> Null]
    /\ gqlOp = [r \in Requests |-> "none"]

\* ApolloServer was constructed under NODE_ENV = env.
ServerInit(env) ==
    /\ nodeEnv = env
    /\ introspection = IntrospectionEnabled(env)

\* The frontend modules just loaded under environment key: proxy.ts has
\* selected its proxy, nothing handled or rendered yet.
FrontendInit(key) ==
    /\ clerkKey = key
    /\ proxy = SelectProxy(key)
    /\ proxyResp = Null
    /\ rendered = Null
    /\ dispatched = Null

\* Backend runs; the frontend is deployed with a Clerk key and at rest.
Init == BackendInit /\ ServerInit("production") /\ FrontendInit("pk_test_abc")

\* Frontend runs under any environment; the backend is at rest.
InitNext ==
    /\ BackendInit
    /\ ServerInit("production")
    /\ \E key \in ClerkKeys : FrontendInit(key)

\* Backend runs under any NODE_ENV.
InitEnv ==
    /\ BackendInit
    /\ \E env \in NodeEnvs : ServerInit(env)
    /\ FrontendInit("pk_test_abc")

----------------------------------------------------------------------------
\* Database actions

\* prisma.user.create routed by the read-replica extension: the row is
\* inserted in the table the write is routed to.
Insert(rec) ==
    IF Route("create") = "primary"
    THEN primary' = primary \cup {rec} /\ replica' = replica
    ELSE replica' = replica \cup {rec} /\ primary' = primary

\* A user row created directly through Prisma (seed script, Prisma Studio),
\* with or without an explicit role.
CreateUser(data) ==
    /\ Cardinality(primary) < MaxUsers
    /\ dbLog' = dbLog \cup {LogEntry("create")}
    /\ IF UniqueViolation(Store(Route("create")), data)
       THEN UNCHANGED <<primary, replica, nextId>>
       ELSE Insert(NewUser(nextId, data)) /\ nextId' = nextId + 1
    /\ UNCHANGED <<reqVars, nextVars, cfgVars>>

\* The replica catches up with the primary.
Replicate ==
    /\ replica # primary
    /\ replica' = primary
    /\ UNCHANGED <<primary, nextId, dbLog, reqVars, nextVars, cfgVars>>

----------------------------------------------------------------------------
\* A GraphQL request: context factory (authMiddleWare), then the user query

\* What the /graphql handler does with the outcome of an operation for
\* request r: Apollo answers with a GraphQL response; only what Express
\* forwards reaches errorMiddleware.
Answer(r, outcome) ==
    IF ExpressForwards("apollo", outcome)
    THEN /\ mwErr' = [mwErr EXCEPT ![r] = outcome]
         /\ httpResp' = [httpResp EXCEPT ![r] = errorMiddleware(outcome)]
    ELSE /\ httpResp' = [httpResp EXCEPT ![r] =
                           GraphQLResponse(nodeEnv, outcome)]
         /\ UNCHANGED mwErr

\* A request arrives at /graphql carrying token tok and asking for operation
\* o; authMiddleWare first verifies the token with the Clerk SDK. Without a
\* verified token the context is built with no user.
Begin(r, tok, o) ==
    /\ pc[r] = "idle"
    /\ route' = [route EXCEPT ![r] = "/graphql"]
    /\ token' = [token EXCEPT ![r] = tok]
    /\ gqlOp' = [gqlOp EXCEPT ![r] = o]
    /\ steps' = [steps EXCEPT ![r] = Append(@, "verify")]
    /\ pc' = [pc EXCEPT ![r] =
                IF VerifyToken(tok).kind = "claims" THEN "lookup"
                ELSE "resolve"]
    /\ UNCHANGED <<dbVars, ctx, found, raw, result, mwErr, httpResp, nextVars, cfgVars>>

\* A request for the user query.
Verify(r, tok) == Begin(r, tok, "user")

\* A request for an introspection query ({ __schema { ... } }).
IntrospectionRequest(r, tok) == Begin(r, tok, "introspection")

\* A request without a token arrives for another operation of the schema.
OperationRequest(r) == Begin(r, "none", "operation")

\* authMiddleWare, after verification: look the local user up by its auth_id
\* key; when found, attach dbUserId and role to the context.
Lookup(r) ==
    /\ pc[r] = "lookup"
    /\ dbLog' = dbLog \cup {LogEntry("findUnique")}
    /\ LET rec == FindByAuthId(Store(Route("findUnique")),
                               VerifyToken(token[r]).sub)
       IN  IF rec.kind = "user"
           THEN /\ ctx' = [ctx EXCEPT ![r] = Context(AuthUser(rec))]
                /\ steps' = [steps EXCEPT ![r] = @ \o <<"lookup", "attach">>]
                /\ pc' = [pc EXCEPT ![r] = "resolve"]
           ELSE /\ steps' = [steps EXCEPT ![r] = Append(@, "lookup")]
                /\ pc' = [pc EXCEPT ![r] = "sync"]
                /\ UNCHANGED ctx
    /\ UNCHANGED <<primary, replica, nextId, route, token, found, raw, result,
                   mwErr, httpResp, gqlOp, nextVars, cfgVars>>

\* authMiddleWare, user sync: no local record was found, so create it and
\* attach it. A unique-constraint failure rejects the context factory and
\* the request ends with an error before any resolver runs.
Sync(r) ==
    /\ pc[r] = "sync"
    /\ dbLog' = dbLog \cup {LogEntry("create")}
    /\ LET sub  == VerifyToken(token[r]).sub
           data == [auth_id |-> sub, email |-> EmailOf(sub), role |-> "unset"]
           fail == Throw("ContextCreationError", "Unique constraint failed")
       IN  IF UniqueViolation(Store(Route("create")), data)
           THEN /\ pc' = [pc EXCEPT ![r] = "done"]
                /\ steps' = [steps EXCEPT ![r] = Append(@, "sync")]
                /\ result' = [result EXCEPT ![r] = fail]
                /\ Answer(r, fail)
                /\ UNCHANGED <<primary, replica, nextId, ctx>>
           ELSE /\ Insert(NewUser(nextId, data))
                /\ nextId' = nextId + 1
                /\ ctx' = [ctx EXCEPT ![r] =
                     Context(AuthUser(NewUser(nextId, data)))]
                /\ steps' = [steps EXCEPT ![r] = @ \o <<"sync", "attach">>]
                /\ pc' = [pc EXCEPT ![r] = "resolve"]
                /\ UNCHANGED <<result, mwErr, httpResp>>
    /\ UNCHANGED <<route, token, found, raw, gqlOp, nextVars, cfgVars>>

\* Apollo starts the user query against the built context: when the
\* decorators let the body run, findUnique is issued and reads the table,
\* and the resolver awaits its answer. dbFail is Null or the failure of the
\* database call.
Resolve(r, dbFail) ==
    /\ pc[r] = "resolve"
    /\ gqlOp[r] = "user"
    /\ IF UserBodyRuns(ctx[r])
       THEN /\ found' = [found EXCEPT ![r] =
                  FindUniqueUser(ctx[r], Store(Route("findUnique")), dbFail)]
            /\ dbLog' = dbLog \cup {LogEntry("findUnique")}
       ELSE /\ dbFail = Null
            /\ UNCHANGED <<found, dbLog>>
    /\ steps' = [steps EXCEPT ![r] = Append(@, "resolve")]
    /\ pc' = [pc EXCEPT ![r] = "respond"]
    /\ UNCHANGED <<primary, replica, nextId, route, token, ctx, raw, result,
                   mwErr, httpResp, gqlOp, nextVars, cfgVars>>

\* The awaited call has answered: the body finishes, tryCatchAsync converts
\* its error, and Apollo sends the response.
Respond(r) ==
    /\ pc[r] = "respond"
    /\ LET q == UserQueryAfter(ctx[r], found[r])
       IN  /\ raw' = [raw EXCEPT ![r] = q.raw]
           /\ result' = [result EXCEPT ![r] = q.result]
           /\ Answer(r, q.result)
    /\ pc' = [pc EXCEPT ![r] = "done"]
    /\ UNCHANGED <<dbVars, route, token, ctx, steps, found, gqlOp, nextVars,
                   cfgVars>>

\* Apollo answers an introspection query: the schema when the server was
\* built with introspection on, a validation error otherwise. No resolver
\* of the application runs.
Introspect(r) ==
    /\ pc[r] = "resolve"
    /\ gqlOp[r] = "introspection"
    /\ result' = [result EXCEPT ![r] = IntrospectionQuery(introspection)]
    /\ Answer(r, IntrospectionQuery(introspection))
    /\ steps' = [steps EXCEPT ![r] = Append(@, "introspect")]
    /\ pc' = [pc EXCEPT ![r] = "done"]
    /\ UNCHANGED <<dbVars, route, token, ctx, found, raw, gqlOp, nextVars,
                   cfgVars>>

----------------------------------------------------------------------------
\* Express route /health and the error middleware

\* app.get("/health", async ...): the request is routed to the handler,
\* which calls fetchData and awaits it.
HealthRequest(r) ==
    /\ pc[r] = "idle"
    /\ route' = [route EXCEPT ![r] = "/health"]
    /\ pc' = [pc EXCEPT ![r] = "health"]
    /\ UNCHANGED <<dbVars, token, ctx, steps, found, raw, result, mwErr,
                   httpResp, gqlOp, nextVars, cfgVars>>

\* fetchData has settled: the handler answers, or throws and Express 5
\* forwards the error to errorMiddleware.
Health(r, outcome) ==
    /\ pc[r] = "health"
    /\ pc' = [pc EXCEPT ![r] = "done"]
    /\ result' = [result EXCEPT ![r] = outcome]
    /\ IF ExpressForwards("route", outcome)
       THEN /\ mwErr' = [mwErr EXCEPT ![r] = outcome]
            /\ httpResp' = [httpResp EXCEPT ![r] = errorMiddleware(outcome)]
       ELSE /\ httpResp' = [httpResp EXCEPT ![r] =
                              [status |-> 200, body |-> outcome.value]]
            /\ UNCHANGED mwErr
    /\ UNCHANGED <<dbVars, route, token, ctx, steps, found, raw, gqlOp, nextVars,
                   cfgVars>>

----------------------------------------------------------------------------

Next ==
    \/ \E data \in CreateData : CreateUser(data)
    \/ Replicate
    \/ \E r \in Requests, tok \in Tokens : Verify(r, tok)
    \/ \E r \in Requests : Lookup(r)
    \/ \E r \in Requests : Sync(r)
    \/ \E r \in Requests, dbFail \in DbErrors \cup {Null} : Resolve(r, dbFail)
    \/ \E r \in Requests : Respond(r)
    \/ \E r \in Requests : HealthRequest(r)
    \/ \E r \in Requests,
          outcome \in ExpressErrors \cup {Value([status |-> "ok"])} :
          Health(r, outcome)

Spec == Init /\ [][Next]_vars

\* The GraphQL endpoint under any NODE_ENV, serving user and introspection
\* queries.
\* The operation ends with an error, which Apollo formats for the client.
OperationFails(r, err) ==
    /\ pc[r] = "resolve"
    /\ gqlOp[r] = "operation"
    /\ result' = [result EXCEPT ![r] = err]
    /\ Answer(r, err)
    /\ steps' = [steps EXCEPT ![r] = Append(@, "operation")]
    /\ pc' = [pc EXCEPT ![r] = "done"]
    /\ UNCHANGED <<dbVars, route, token, ctx, found, raw, gqlOp, nextVars,
                   cfgVars>>

NextEnv ==
    \/ Replicate
    \/ \E r \in Requests, tok \in Tokens : Verify(r, tok)
    \/ \E r \in Requests, tok \in Tokens : IntrospectionRequest(r, tok)
    \/ \E r \in Requests : Lookup(r)
    \/ \E r \in Requests : Sync(r)
    \/ \E r \in Requests, dbFail \in DbErrors \cup {Null} : Resolve(r, dbFail)
    \/ \E r \in Requests : Respond(r)
    \/ \E r \in Requests : Introspect(r)
    \/ \E r \in Requests : OperationRequest(r)
    \/ \E r \in Requests, err \in OperationErrors : OperationFails(r, err)

SpecEnv == InitEnv /\ [][NextEnv]_vars

----------------------------------------------------------------------------
\* Frontend actions

\* Next.js invokes the proxy for a request.
ProxyRequest(path, clerkOutcome) ==
    /\ proxyResp' = ProxyResponse(proxy, path, clerkOutcome)
    /\ UNCHANGED <<dbVars, reqVars, cfgVars, clerkKey, proxy, rendered, dispatched>>

\* The root layout renders <Providers>{children}</Providers>.
Render(component, children) ==
    /\ rendered' = [kind |-> "tree", children |-> children,
                    component |-> component,
                    tree |-> ProvidersOf(component, clerkKey, children)]
    /\ UNCHANGED <<dbVars, reqVars, cfgVars, clerkKey, proxy, proxyResp,
                   dispatched>>

\* Next.js receives a request for path: it tests the path against
\* config.matcher and invokes the proxy only when a pattern matches.
Dispatch(path, clerkOutcome) ==
    /\ dispatched' = [kind |-> "dispatch", path |-> path,
                      first |-> FirstPattern(path),
                      second |-> SecondPattern(path),
                      invoked |-> MatcherMatches(path)]
    /\ proxyResp' = IF MatcherMatches(path)
                    THEN ProxyResponse(proxy, path, clerkOutcome)
                    ELSE Null
    /\ UNCHANGED <<dbVars, reqVars, cfgVars, clerkKey, proxy, rendered>>

NextNext ==
    \/ \E path \in Paths, o \in ClerkOutcomes : ProxyRequest(path, o)
    \/ \E p \in ProvidersComponents, c \in Children : Render(p, c)

SpecNext == InitNext /\ [][NextNext]_vars

\* Requests arriving at the Next.js server.
NextMatcher ==
    \E path \in MatcherPaths, o \in ClerkOutcomes : Dispatch(path, o)

SpecMatcher == InitNext /\ [][NextMatcher]_vars

----------------------------------------------------------------------------
\* Properties

\* Position of the first occurrence of x in seq, 0 when absent.
Pos(seq, x) ==
    IF \E i \in 1..Len(seq) : seq[i] = x
    THEN CHOOSE i \in 1..Len(seq) :
            seq[i] = x /\ \A j \in 1..(i - 1) : seq[j] # x
    ELSE 0

Has(seq, x) == Pos(seq, x) # 0

\* C1: the body of the @authRequired() operation (and so its database
\* lookup) runs only for a request whose context carries an authenticated
\* user; a request without one that reaches the operation ends with an error
\* and its body never runs.
C1_AuthRequiredGuardsBody ==
    \A r \in Requests :
        /\ raw[r].kind # "null" => ctx[r].user.kind = "user"
        /\ found[r].kind # "null" => ctx[r].user.kind = "user"
        /\ (Has(steps[r], "resolve") /\ ctx[r].user.kind = "null")
              => (/\ raw[r].kind = "null"
                  /\ found[r].kind = "null"
                  /\ pc[r] = "done" => result[r].kind = "throw")

C1_Witness ==
    \E r1, r2 \in Requests :
        /\ Has(steps[r1], "resolve") /\ ctx[r1].user.kind = "null"
        /\ pc[r1] = "done" /\ result[r1].kind = "throw"
        /\ ctx[r2].user.kind = "user" /\ raw[r2].kind = "value"

\* C2: the context is built in the order verify, lookup, attach; the lookup
\* happens only after a successful verification, the attach only after the
\* lookup, and a request whose token is missing or fails verification never
\* gets a user attached.
C2_ContextBuildOrder ==
    \A r \in Requests :
        /\ Has(steps[r], "lookup")
              => (steps[r][1] = "verify" /\ token[r] \in Identities)
        /\ Has(steps[r], "attach")
              => (/\ 0 < Pos(steps[r], "verify")
                  /\ Pos(steps[r], "verify") < Pos(steps[r], "lookup")
                  /\ Pos(steps[r], "lookup") < Pos(steps[r], "attach"))
        /\ ctx[r].user.kind = "user"
              => (Has(steps[r], "attach") /\ token[r] \in Identities)
        /\ token[r] \notin Identities
              => (/\ ctx[r].user.kind = "null"
                  /\ ~Has(steps[r], "lookup")
                  /\ ~Has(steps[r], "attach"))

C2_Witness ==
    \E r1, r2 \in Requests :
        /\ token[r1] = "bad" /\ pc[r1] = "done" /\ ctx[r1].user.kind = "null"
        /\ ctx[r2].user.kind = "user"
        /\ steps[r2] = <<"verify", "lookup", "attach", "resolve">>

\* C3: every read is executed against the replica and every write against
\* the primary; no write ever lands on the replica, whose rows all come from
\* the primary.
C3_ReadWriteSplit ==
    /\ \A e \in dbLog :
          /\ e.type = "read" => e.target = "replica"
          /\ e.type = "write" => e.target = "primary"
    /\ replica \subseteq primary

C3_Witness ==
    /\ \E e \in dbLog : e.type = "read" /\ e.op = "findUnique"
    /\ \E e \in dbLog : e.type = "write" /\ e.op = "create"
    /\ primary # {}
    /\ replica # primary

\* C4: when fn completes with a value tryCatchAsync returns that value
\* unchanged; when fn throws, the caller observes a GraphQLError with the
\* original message, and nothing else escapes.
C4_TryCatchAsyncConverts ==
    \A r \in Requests :
        /\ raw[r].kind = "value" => result[r] = raw[r]
        /\ raw[r].kind = "throw"
              => (/\ result[r].kind = "throw"
                  /\ result[r].type = "GraphQLError"
                  /\ result[r].message = raw[r].message)

C4_Witness ==
    \E r1, r2 \in Requests :
        /\ raw[r1].kind = "throw" /\ raw[r1].type # "GraphQLError"
        /\ result[r1].type = "GraphQLError"
        /\ raw[r2].kind = "value" /\ result[r2] = raw[r2]

\* C5: for an authenticated request with dbUserId = d whose lookup did not
\* itself fail, the user query returns exactly the record with id d when one
\* exists, and fails with GraphQLError "User not found" when none exists.
C5_UserQueryFindsExistingRecord ==
    \A r \in Requests :
        (/\ pc[r] = "done"
         /\ ctx[r].user.kind = "user"
         /\ raw[r].kind # "null"
         /\ raw[r] \notin DbErrors)
        => IF \E u \in primary : u.id = ctx[r].user.dbUserId
           THEN /\ result[r].kind = "value"
                /\ result[r].value \in primary
                /\ result[r].value.id = ctx[r].user.dbUserId
           ELSE result[r] = Throw("GraphQLError", "User not found")

\* C6: no two user records share an auth_id or an email, whatever the
\* interleaving of creations and user syncs.
C6_UniqueAuthIdAndEmail ==
    \A table \in {primary, replica} :
        \A u, v \in table :
            u # v => (u.auth_id # v.auth_id /\ u.email # v.email)

\* Two requests of one Clerk identity both missed the lookup and both ran
\* the sync.
C6_Witness ==
    \E r1, r2 \in Requests :
        /\ r1 # r2
        /\ token[r1] = token[r2]
        /\ Has(steps[r1], "sync") /\ Has(steps[r2], "sync")
        /\ Cardinality(primary) = 2

\* C7: every user record has a role that is ADMIN or USER, a record created
\* without an explicit role (the user sync) has role USER, and the role on a
\* request context is one of the two.
C7_RoleIsAdminOrUser ==
    /\ \A u \in primary \cup replica : u.role \in {"ADMIN", "USER"}
    /\ \A r \in Requests :
          ctx[r].user.kind = "user"
              => (/\ ctx[r].user.role \in {"ADMIN", "USER"}
                  /\ Has(steps[r], "sync") => ctx[r].user.role = "USER")

C7_Witness ==
    /\ \E u \in primary : u.role = "ADMIN"
    /\ \E r \in Requests :
          Has(steps[r], "sync") /\ ctx[r].user.kind = "user"
    /\ \E r \in Requests :
          ctx[r].user.kind = "user" /\ ctx[r].user.role = "ADMIN"

\* C8: the proxy is the Clerk middleware exactly when the key is set; with
\* the key unset or empty every request handled is passed to the next
\* handler unchanged, never redirected or rejected.
C8_ProxySelectedFromKey ==
    /\ proxy \in {"clerkMiddleware", "passthrough"}
    /\ proxy = "clerkMiddleware" <=> clerkKey \notin {"undefined", ""}
    /\ (clerkKey \in {"undefined", ""} /\ proxyResp.kind = "response")
          => (/\ proxyResp.by = "passthrough"
              /\ proxyResp.action = "next"
              /\ proxyResp.headers = "unchanged")

C8_Witness ==
    /\ clerkKey = ""
    /\ proxyResp.kind = "response"
    /\ proxyResp.action = "next"

\* C9: Providers renders its children exactly once, directly inside
\* ApolloProvider, under every configuration; ClerkProvider is in the tree,
\* as the outermost element around ApolloProvider, exactly when the key is
\* set.
C9_ProvidersComposition ==
    rendered.kind = "tree" =>
        LET t == rendered.tree
            n == Len(rendered.tree)
        IN  /\ n >= 2
            /\ t[n] = rendered.children
            /\ t[n - 1] = "ApolloProvider"
            /\ \A i \in 1..(n - 1) : t[i] \notin Children
            /\ (\E i \in 1..n : t[i] = "ClerkProvider")
                  <=> clerkKey \notin {"undefined", ""}
            /\ (\E i \in 1..n : t[i] = "ClerkProvider")
                  => (n = 3 /\ t[1] = "ClerkProvider")

C9_Witness ==
    /\ clerkKey = "pk_test_abc"
    /\ rendered.kind = "tree"
    /\ rendered.tree = <<"ClerkProvider", "ApolloProvider", "page">>

\* C10: every error that reaches errorMiddleware is answered with status
\* 500 and the body {status: "error", message: "Internal server error"},
\* whatever the error is.
C10_ErrorMiddlewareFixedResponse ==
    \A r \in Requests :
        mwErr[r].kind = "throw"
            => (/\ httpResp[r].status = 500
                /\ httpResp[r].body =
                      [status |-> "error", message |-> "Internal server error"])

C10_Witness ==
    \E r1, r2 \in Requests :
        /\ mwErr[r1].kind = "throw" /\ mwErr[r2].kind = "throw"
        /\ mwErr[r1] # mwErr[r2]
        /\ httpResp[r1] = httpResp[r2]

\* C11: an error raised while Apollo handles a /graphql request (resolver
\* body, @authRequired, context factory) comes back as a GraphQL error in
\* the response and never reaches errorMiddleware; an error thrown by the
\* /health route handler is always forwarded to errorMiddleware.
C11_ResolverErrorsStayInApollo ==
    \A r \in Requests :
        /\ route[r] = "/graphql" => mwErr[r].kind = "null"
        /\ (route[r] = "/graphql" /\ pc[r] = "done" /\ result[r].kind = "throw")
              => (/\ "errors" \in DOMAIN httpResp[r]
                  /\ Len(httpResp[r].errors) = 1
                  /\ httpResp[r] # errorMiddleware(result[r]))
        /\ (route[r] = "/health" /\ result[r].kind = "throw")
              => (mwErr[r] = result[r]
                  /\ httpResp[r] = errorMiddleware(result[r]))

C11_Witness ==
    \E r1, r2 \in Requests :
        /\ route[r1] = "/graphql" /\ raw[r1].kind = "throw"
        /\ "errors" \in DOMAIN httpResp[r1]
        /\ route[r2] = "/health" /\ mwErr[r2].kind = "throw"

\* C12: introspection is enabled exactly when NODE_ENV is not "production":
\* an introspection query is answered with the schema under every other
\* value (development, local, unset) and rejected in production.
C12_IntrospectionOffInProduction ==
    /\ introspection <=> nodeEnv # "production"
    /\ \A r \in Requests :
          (gqlOp[r] = "introspection" /\ pc[r] = "done"
              /\ Has(steps[r], "introspect"))
          => (result[r].kind = "value" <=> nodeEnv # "production")

C12_Witness ==
    /\ nodeEnv = "production"
    /\ \E r \in Requests :
          /\ gqlOp[r] = "introspection" /\ pc[r] = "done"
          /\ result[r].kind = "throw"

\* C13: in production an error goes to the client unchanged only when it is
\* a GraphQLError carrying a (non-empty) extensions.code, and every other
\* error is
\* replaced by exactly {message: "Internal server error"}; outside
\* production every error goes out unchanged.
C13_FormatErrorMasking ==
    \A r \in Requests :
        (route[r] = "/graphql" /\ pc[r] = "done" /\ result[r].kind = "throw")
        => LET e   == result[r]
               out == httpResp[r].errors[1]
               unchanged ==
                   [message |-> e.message,
                    code |-> IF "code" \in DOMAIN e THEN e.code
                             ELSE "INTERNAL_SERVER_ERROR"]
               carriesCode == "code" \in DOMAIN e /\ e.code # ""
           IN  IF nodeEnv = "production"
               THEN IF e.type = "GraphQLError" /\ carriesCode
                    THEN out = unchanged
                    ELSE out = [message |-> "Internal server error"]
               ELSE out = unchanged

C13_Witness ==
    /\ nodeEnv = "production"
    /\ \E r1, r2 \in Requests :
          /\ result[r1] = ThrowCoded("GraphQLError", "Rejected", "")
          /\ httpResp[r1].errors = <<[message |-> "Internal server error"]>>
          /\ result[r2].kind = "throw" /\ "code" \in DOMAIN result[r2]
          /\ httpResp[r2].errors[1].message = result[r2].message

\* Whether s ends with the characters of lit.
EndsWith(s, lit) == MatchesAt(s, Len(s) - Len(lit) + 1, lit)

\* Whether path ends in one of the listed static file extensions.
EndsInExtension(path) == \E e \in Extensions : EndsWith(path, <<".">> \o e)

\* Whether a listed extension appears in path followed by more characters.
ExtensionInMiddle(path) ==
    \E e \in Extensions, i \in 1..Len(path) :
        /\ MatchesAt(path, i, <<".">> \o e)
        /\ i + Len(e) < Len(path)

\* C14: the first matcher pattern skips a path exactly when the path
\* starts with /_next or ends in a listed static file extension, and
\* matches every other path.
C14_FirstPatternSkipsOnlyStaticEndings ==
    dispatched.kind = "dispatch" =>
        (dispatched.first <=>
            ~(\/ MatchesAt(dispatched.path, 1, <<"/", "_", "n", "e", "x", "t">>)
              \/ EndsInExtension(dispatched.path)))

\* C15: every path that begins with /api or /trpc is matched by the second
\* pattern and goes through the proxy, also when it ends in a static file
\* extension that the first pattern excludes.
C15_ApiAndTrpcAlwaysMatched ==
    (/\ dispatched.kind = "dispatch"
     /\ \/ MatchesAt(dispatched.path, 1, <<"/", "a", "p", "i">>)
        \/ MatchesAt(dispatched.path, 1, <<"/", "t", "r", "p", "c">>))
    => (/\ dispatched.second
        /\ dispatched.invoked
        /\ proxyResp.kind = "response"
        /\ proxyResp.path = dispatched.path)

C15_Witness ==
    /\ dispatched.kind = "dispatch"
    /\ dispatched.path = <<"/", "a", "p", "i", "/", "e", "x", "p", "o", "r", "t", ".", "c", "s", "v">>
    /\ ~dispatched.first
    /\ dispatched.invoked
    /\ proxyResp.kind = "response"

\* C16: a non-_next path ending in ".json" is matched by the first pattern,
\* while a path ending in ".js" is not.
C16_JsonMatchedJsSkipped ==
    dispatched.kind = "dispatch" =>
        /\ (/\ ~MatchesAt(dispatched.path, 1, <<"/", "_", "n", "e", "x", "t">>)
            /\ EndsWith(dispatched.path, <<".", "j", "s", "o", "n">>))
              => dispatched.first
        /\ EndsWith(dispatched.path, <<".", "j", "s">>) => ~dispatched.first

\* C17: a non-_next path that does not end in a listed extension but has
\* one in the middle, followed by more characters, is still matched by the
\* first pattern, so the proxy runs for it.
C17_ExtensionInMiddleStillMatched ==
    (/\ dispatched.kind = "dispatch"
     /\ ~MatchesAt(dispatched.path, 1, <<"/", "_", "n", "e", "x", "t">>)
     /\ ~EndsInExtension(dispatched.path)
     /\ ExtensionInMiddle(dispatched.path))
    => (dispatched.first /\ dispatched.invoked)

\* C18: in a request whose auth middleware has just created the local user
\* record, the user query of that request (when its lookup does not itself
\* fail) finds the record and does not end with "User not found".
C18_ReadYourWritesAfterSync ==
    \A r \in Requests :
        (/\ Has(steps[r], "sync")
         /\ ctx[r].user.kind = "user"
         /\ pc[r] = "done"
         /\ raw[r].kind # "null"
         /\ raw[r] \notin DbErrors)
        => (/\ result[r].kind = "value"
            /\ result[r].value.id = ctx[r].user.dbUserId)

\* C19: the user, dbUserId and role on a request's context come from that
\* request's own token: they are those of the user record whose auth_id is
\* the token's subject, whatever the other requests in flight carry.
C19_ContextFromOwnToken ==
    \A r \in Requests :
        ctx[r].user.kind = "user" =>
            /\ ctx[r].user.authId = token[r]
            /\ \E u \in primary :
                  /\ u.auth_id = token[r]
                  /\ u.id = ctx[r].user.dbUserId
                  /\ u.role = ctx[r].user.role

\* Two requests of different identities hold their contexts at once.
C19_Witness ==
    \E r1, r2 \in Requests :
        /\ ctx[r1].user.kind = "user" /\ ctx[r2].user.kind = "user"
        /\ token[r1] # token[r2]
        /\ ctx[r1].user.dbUserId # ctx[r2].user.dbUserId
        /\ pc[r1] = "resolve" /\ pc[r2] = "resolve"

====
